---- MODULE Spec2Model ----
(***************************************************************************)
(* Model of package retry of hamba/testutils: the retry policies Counter   *)
(* and Timer, the attempt context SubT and the loop RunWith.               *)
(*                                                                         *)
(* Time is an integer clock `now`.  The zero time.Time is ZeroTime; the    *)
(* clock starts at Epoch, far enough from ZeroTime that now + timeout is   *)
(* never the zero time (a time.Duration spans about 292 years, the clock   *)
(* reads about 2000 years after the zero time).                            *)
(***************************************************************************)
EXTENDS Integers, Sequences, FiniteSets, TLC

\* ---------------------------------------------------------------- bounds
MaxAttempts == 3   \* largest `attempts` given to NewCounter
MaxSleep == 2      \* largest `sleep` given to NewCounter / NewTimer
MaxTimeout == 2    \* largest `timeout` given to NewTimer
MaxCalls == 5      \* Next() calls made by the stand-alone policy driver
MaxElapse == 3     \* clock ticks the caller may spend outside Next()
MaxOps == 3        \* statements one invocation of the body executes
Epoch == 3         \* the clock's first reading

ZeroTime == 0

VARIABLES
  \* the policy p (Counter and Timer fields; kind tells which one p is)
  kind, attempts, sleep, count, timeout, stop,
  \* the clock, the ticks spent outside Next(), and the record of Next() calls
  now, elapsed, calls,
  \* RunWith's position, its WaitGroup counter and its range index over tt.logs
  pc, wg, ri,
  \* tt, the SubT shared by all attempts
  logs, failed, cleanups, ctx,
  \* the attempt's goroutine: its position and the cleanup it is running
  task, cur,
  \* the outer TestingT: the Log calls and the FailNow calls it received
  outerLogs, outerFailNow,
  \* observers: body invocations, statements executed and Goexit seen in this
  \* attempt, cleanups registered / executed in this attempt, tt.failed as
  \* RunWith read it after each attempt, the lines the body logged in this
  \* attempt, and the statement that first failed this attempt (0: none)
  runs, steps, aborted, registered, ran, outcomes, written, failedAt,
  \* the outer context's context.Context, if it exposes one
  base,
  \* a helper goroutine the body started
  helper,
  \* what each registered cleanup function does when called
  ckinds,
  \* the mock http server: Server.expect, every expectation ever registered,
  \* the requests served, the t.Errorf reports, and whether the test asserted
  expect, registry, served, reports, hpc,
  \* SubT.mu and, per goroutine using tt, the call on tt it is in
  mu, thr,
  \* the calls of Run made so far by the test binary
  session,
  \* one evaluation of requestMatches' query comparison: the two queries, the
  \* order in which range visited the expectation's keys, and the result
  qm,
  \* the server's connections, each with the handler invocation it is in,
  \* and the called field of each *Expectation a handler has written to
  conns, objs

policyVars == <<kind, attempts, sleep, count, timeout, stop>>
clockVars == <<now, elapsed, calls>>
orchVars == <<pc, wg, ri>>
subtVars == <<logs, failed, cleanups, ctx>>
taskVars == <<task, cur>>
outerVars == <<outerLogs, outerFailNow>>
obsVars == <<runs, steps, aborted, registered, ran, outcomes, written, failedAt>>
httpVars == <<expect, registry, served, reports, hpc>>
muVars == <<mu, thr>>
runVars == <<session>>
queryVars == <<qm>>
connVars == <<conns, objs>>
extVars == <<base, helper, ckinds, httpVars, muVars, runVars, queryVars, connVars>>
vars == <<policyVars, clockVars, orchVars, subtVars, taskVars, outerVars, obsVars, extVars>>

\* No helper goroutine.
NoHelper == [state |-> "none", att |-> 0, ops |-> 0]

\* RunWith called with an outer context that exposes no Context(), a body that
\* starts no goroutine and cleanups that only return.
\* The goroutines that may use tt during an attempt.
Tasks == {"body", "helper"}

\* A goroutine that is in no call on tt.
IdleThread == [op |-> "none", at |-> "idle"]

\* No mock server.
HttpIdle ==
  /\ expect = <<>> /\ registry = <<>>
  /\ served = <<>> /\ reports = <<>>
  /\ hpc = "none"

\* The zero sync.Mutex of &SubT{}, and no call on tt under way.
MuIdle ==
  /\ mu = "free"
  /\ thr = [t \in Tasks |-> IdleThread]

\* One call of RunWith, nothing before it.
OneRun == session = [n |-> 1, spent |-> FALSE]

\* requestMatches not called.
NoMatchCall == [at |-> "none"]

QueryIdle == qm = NoMatchCall

\* A server that accepted no connection.
ConnIdle == conns = <<>> /\ objs = <<>>

ExtIdle ==
  /\ base = "background"
  /\ helper = NoHelper
  /\ ckinds = <<>>
  /\ HttpIdle
  /\ MuIdle
  /\ OneRun
  /\ QueryIdle
  /\ ConnIdle

\* The nil func(): no cleanup.
NoCleanup == [att |-> 0, k |-> 0]

\* The slice s read from its end.
Reverse(s) == [i \in 1..Len(s) |-> s[Len(s) + 1 - i]]

\* The slice s without its element i.
Remove(s, i) == [j \in 1..(Len(s) - 1) |-> IF j < i THEN s[j] ELSE s[j + 1]]

Max(a, b) == IF a >= b THEN a ELSE b
Min(a, b) == IF a <= b THEN a ELSE b

\* ------------------------------------------------------------- the clock
\* time.Sleep(d): returns after d has passed; at once when d <= 0.
SleepUntil(d) == now + Max(d, 0)

\* time.Time.After
After(t, u) == t > u

\* time.Time.IsZero
IsZero(t) == t = ZeroTime

\* ------------------------------------------------------------ the policies
\* NewCounter(a, s)
NewCounter(a, s) ==
  /\ kind = "counter"
  /\ attempts = a
  /\ sleep = s
  /\ count = 0
  /\ timeout = 0
  /\ stop = ZeroTime

\* NewTimer(t, s)
NewTimer(t, s) ==
  /\ kind = "timer"
  /\ timeout = t
  /\ sleep = s
  /\ stop = ZeroTime
  /\ attempts = 0
  /\ count = 0

\* One Next() call recorded: what it returned, whether it called time.Sleep and
\* with which duration, and the clock when it was entered and when it returned.
Call(r, s, d, t) == [ret |-> r, slept |-> s, dur |-> d, at |-> now, end |-> t]

CounterExhaustedStrict == count > attempts

\* Counter.Next, the exhausted branch: count >= attempts.
CounterExhausted == count >= attempts

CounterSleepsAlways == count >= 0

\* Counter.Next, the sleep condition: count > 0.
CounterSleeps == count > 0

\* Counter.Next
CounterNext ==
  /\ kind = "counter"
  /\ IF CounterExhausted
       THEN /\ calls' = Append(calls, Call(FALSE, FALSE, 0, now))
            /\ UNCHANGED <<count, now>>
       ELSE /\ IF CounterSleeps
                 THEN /\ now' = SleepUntil(sleep)
                      /\ calls' = Append(calls, Call(TRUE, TRUE, sleep, now'))
                 ELSE /\ now' = now
                      /\ calls' = Append(calls, Call(TRUE, FALSE, 0, now))
            /\ count' = count + 1
  /\ UNCHANGED <<kind, attempts, sleep, timeout, stop, elapsed>>

TimerExpiredSwapped == After(stop, now)

TimerExpiredLate == After(now, stop + 1)

\* Timer.Next, the deadline test: time.Now().After(t.stop).
TimerExpired == After(now, stop)

\* Timer.Next
TimerNext ==
  /\ kind = "timer"
  /\ IF IsZero(stop)
       THEN /\ stop' = now + timeout
            /\ calls' = Append(calls, Call(TRUE, FALSE, 0, now))
            /\ now' = now
       ELSE IF TimerExpired
       THEN /\ calls' = Append(calls, Call(FALSE, FALSE, 0, now))
            /\ UNCHANGED <<stop, now>>
       ELSE /\ now' = SleepUntil(sleep)
            /\ calls' = Append(calls, Call(TRUE, TRUE, sleep, now'))
            /\ stop' = stop
  /\ UNCHANGED <<kind, attempts, sleep, count, timeout, elapsed>>

\* Policy.Next on p
PolicyNext == CounterNext \/ TimerNext

\* --------------------------------------------- the stand-alone policy driver
\* A caller that builds one policy and calls Next() on it again and again,
\* spending any time between the calls (as the loops of TestCounter_Next and
\* TestTimer_Next do, continued past the first false).
IdleRest ==
  /\ pc = "idle" /\ wg = 0 /\ ri = 0
  /\ logs = <<>> /\ failed = FALSE /\ cleanups = <<>> /\ ctx = "nil"
  /\ task = "none" /\ cur = NoCleanup
  /\ outerLogs = <<>> /\ outerFailNow = 0
  /\ runs = 0 /\ steps = 0 /\ aborted = FALSE
  /\ registered = <<>> /\ ran = <<>> /\ outcomes = <<>>
  /\ written = <<>> /\ failedAt = 0
  /\ ExtIdle

InitPolicy ==
  /\ \/ \E a \in -1..MaxAttempts, s \in -1..MaxSleep : NewCounter(a, s)
     \/ \E t \in -1..MaxTimeout, s \in -1..MaxSleep : NewTimer(t, s)
  /\ now = Epoch /\ elapsed = 0 /\ calls = <<>>
  /\ IdleRest

CallNext ==
  /\ pc = "idle"
  /\ Len(calls) < MaxCalls
  /\ PolicyNext
  /\ UNCHANGED <<orchVars, subtVars, taskVars, outerVars, obsVars, extVars>>

Elapse ==
  /\ pc = "idle"
  /\ elapsed < MaxElapse
  /\ now' = now + 1
  /\ elapsed' = elapsed + 1
  /\ UNCHANGED <<policyVars, calls, orchVars, subtVars, taskVars, outerVars, obsVars, extVars>>

NextPolicy == CallNext \/ Elapse

SpecPolicy == InitPolicy /\ [][NextPolicy]_vars


\* ------------------------------------------------------------------ SubT
\* A log argument: which attempt and which statement wrote it, and how many
\* line feeds end it.
Msg(k) == [att |-> runs, seq |-> steps + 1, nl |-> k]

\* fmt.Sprintln: the operand followed by a line feed.
Sprintln(m) == [m EXCEPT !.nl = @ + 1]

\* fmt.Sprintf with the message as its format: the text as given.
Sprintf(m) == m

\* strings.TrimRight(s, "\n")
TrimRight(m) == [m EXCEPT !.nl = 0]

WithCancelDetached(parent) == "live"

\* context.WithCancel(parent): a new context, cancelled from the start when
\* the parent already is.
WithCancel(parent) == IF parent = "cancelled" THEN "cancelled" ELSE "live"

cancelCtxNoop(c) == c

\* t.cancelCtx(), guarded by t.cancelCtx != nil
cancelCtx(c) == IF c # "nil" THEN "cancelled" ELSE c

resetKeepsLogs ==
  /\ logs' = logs
  /\ failed' = FALSE
  /\ cleanups' = <<>>
  /\ ctx' = WithCancel(base)

\* SubT.reset(baseCtx)
reset ==
  /\ logs' = <<>>
  /\ failed' = FALSE
  /\ cleanups' = <<>>
  /\ ctx' = WithCancel(base)

\* SubT.log
log(m) == logs' = Append(logs, TrimRight(m))

\* runtime.Goexit in the attempt's goroutine: the body is abandoned and the
\* goroutine's deferred function runs.
Goexit ==
  /\ task' = "defer"
  /\ aborted' = TRUE

FailNoSet == failed' = failed

FailToggle == failed' = ~failed

\* SubT.Fail
Fail == failed' = TRUE

FailNowNoExit ==
  /\ failed' = TRUE
  /\ UNCHANGED <<task, aborted>>

\* SubT.FailNow
FailNow ==
  /\ failed' = TRUE
  /\ Goexit

\* SubT.Log
Log(m) == log(Sprintln(m))

\* SubT.Logf
Logf(m) == log(Sprintf(m))

\* SubT.Error
Error(m) == log(Sprintln(m)) /\ Fail

\* SubT.Errorf
Errorf(m) == log(Sprintf(m)) /\ Fail

\* SubT.Fatal
Fatal(m) == log(Sprintln(m)) /\ FailNow

\* SubT.Fatalf
Fatalf(m) == log(Sprintf(m)) /\ FailNow

CleanupFront(fn) == cleanups' = <<fn>> \o cleanups

\* SubT.Cleanup
Cleanup(fn) == cleanups' = Append(cleanups, fn)

\* The cleanup function the body registers: told apart by the attempt and by
\* its place among the attempt's registrations.
NewCleanup == [att |-> runs, k |-> Len(registered) + 1]

\* ------------------------------------------- the body fn(tt), one statement
\* The body is any sequence of at most MaxOps calls on tt, ended by a return
\* or cut short by Goexit; it may also spend time.
InBody == task = "body" /\ steps < MaxOps

Stmt == steps' = steps + 1

\* Observers of a logging and of a failing statement.
Wrote == written' = Append(written, Msg(0))

MarkFailed == failedAt' = IF failedAt = 0 THEN steps + 1 ELSE failedAt

BodyFrame == UNCHANGED <<policyVars, clockVars, orchVars, ctx, cur, outerVars, runs, ran, outcomes, extVars>>

BodyLog ==
  /\ InBody /\ Stmt
  /\ \E k \in 0..1 : Log(Msg(k))
  /\ Wrote
  /\ UNCHANGED <<failed, cleanups, task, aborted, registered, failedAt>>
  /\ BodyFrame

BodyLogf ==
  /\ InBody /\ Stmt
  /\ \E k \in 0..1 : Logf(Msg(k))
  /\ Wrote
  /\ UNCHANGED <<failed, cleanups, task, aborted, registered, failedAt>>
  /\ BodyFrame

BodyError ==
  /\ InBody /\ Stmt
  /\ \E k \in 0..1 : Error(Msg(k))
  /\ Wrote /\ MarkFailed
  /\ UNCHANGED <<cleanups, task, aborted, registered>>
  /\ BodyFrame

BodyErrorf ==
  /\ InBody /\ Stmt
  /\ \E k \in 0..1 : Errorf(Msg(k))
  /\ Wrote /\ MarkFailed
  /\ UNCHANGED <<cleanups, task, aborted, registered>>
  /\ BodyFrame

BodyFatal ==
  /\ InBody /\ Stmt
  /\ \E k \in 0..1 : Fatal(Msg(k))
  /\ Wrote /\ MarkFailed
  /\ UNCHANGED <<cleanups, registered>>
  /\ BodyFrame

BodyFatalf ==
  /\ InBody /\ Stmt
  /\ \E k \in 0..1 : Fatalf(Msg(k))
  /\ Wrote /\ MarkFailed
  /\ UNCHANGED <<cleanups, registered>>
  /\ BodyFrame

BodyFail ==
  /\ InBody /\ Stmt
  /\ Fail
  /\ MarkFailed
  /\ UNCHANGED <<logs, cleanups, task, aborted, registered, written>>
  /\ BodyFrame

BodyFailNow ==
  /\ InBody /\ Stmt
  /\ FailNow
  /\ MarkFailed
  /\ UNCHANGED <<logs, cleanups, registered, written>>
  /\ BodyFrame

BodyCleanup ==
  /\ InBody /\ Stmt
  /\ Cleanup(NewCleanup)
  /\ registered' = Append(registered, NewCleanup)
  /\ UNCHANGED <<logs, failed, task, aborted, written, failedAt>>
  /\ BodyFrame

\* The body spends one clock tick.
BodyWork ==
  /\ task = "body"
  /\ elapsed < MaxElapse
  /\ now' = now + 1
  /\ elapsed' = elapsed + 1
  /\ UNCHANGED <<policyVars, calls, orchVars, subtVars, taskVars, outerVars, obsVars, extVars>>

\* fn(tt) returns: the goroutine's deferred function runs.
BodyReturn ==
  /\ task = "body"
  /\ task' = "defer"
  /\ UNCHANGED <<policyVars, clockVars, orchVars, subtVars, cur, outerVars, obsVars, extVars>>

\* --------------------------- the goroutine's deferred function, step by step
TaskFrame == UNCHANGED <<policyVars, clockVars, pc, ri, logs, failed, outerVars, runs, steps, aborted, registered, outcomes, written, failedAt, extVars>>

\* SubT.runCleanups, its first statement: cancel the attempt's context.
runCleanupsCancel ==
  /\ task = "defer"
  /\ ctx' = cancelCtx(ctx)
  /\ task' = "pop"
  /\ UNCHANGED <<wg, cleanups, cur, ran>>
  /\ TaskFrame

PopIndexFirst == Min(1, Len(cleanups))

\* The cleanup runCleanups takes next from the stack: the last one.
PopIndex == Len(cleanups)

\* SubT.runCleanups, one turn of its loop up to the call: pop under the lock,
\* or return when the stack is empty.
runCleanupsPop ==
  /\ task = "pop"
  /\ IF Len(cleanups) > 0
       THEN /\ cur' = cleanups[PopIndex]
            /\ cleanups' = Remove(cleanups, PopIndex)
            /\ task' = "cleanup"
       ELSE /\ task' = "wgdone"
            /\ UNCHANGED <<cur, cleanups>>
  /\ UNCHANGED <<wg, ctx, ran>>
  /\ TaskFrame

\* What the cleanup function c does when called: "ret" (it returns), "fail"
\* (it calls tt.Fail and returns) or "failnow" (it calls tt.FailNow).
Kind(c) == IF c \in DOMAIN ckinds THEN ckinds[c] ELSE "ret"

\* SubT.runCleanups, the call cleanup(): the popped function runs to its end.
runCleanupsCall ==
  /\ task = "cleanup"
  /\ Kind(cur) = "ret"
  /\ ran' = Append(ran, cur)
  /\ cur' = NoCleanup
  /\ task' = "pop"
  /\ UNCHANGED <<wg, cleanups, ctx>>
  /\ TaskFrame

\* wg.Done() ends the deferred function and with it the goroutine.
wgDone ==
  /\ task = "wgdone"
  /\ wg' = wg - 1
  /\ task' = "none"
  /\ UNCHANGED <<cleanups, ctx, cur, ran>>
  /\ TaskFrame

\* ----------------------------------------------------------------- RunWith
OrchFrame == UNCHANGED <<taskVars, runs, steps, aborted, registered, ran, written, failedAt, extVars>>

NextTargetBodyFirst(r) == IF r \/ runs = 0 THEN "reset" ELSE "replay"

\* for p.Next() { ... }: into the loop's body when Next() returned true, past
\* the loop when it returned false.
NextTarget(r) == IF r THEN "reset" ELSE "replay"

\* for p.Next() { ... }: the loop's condition.
RunWithNext ==
  /\ pc = "next"
  /\ PolicyNext
  /\ pc' = NextTarget(calls'[Len(calls')].ret)
  /\ UNCHANGED <<wg, ri, subtVars, outerVars, outcomes>>
  /\ OrchFrame

\* tt.reset(baseCtx)
RunWithReset ==
  /\ pc = "reset"
  /\ reset
  /\ pc' = "go"
  /\ UNCHANGED <<policyVars, clockVars, wg, ri, outerVars, outcomes>>
  /\ OrchFrame

\* wg.Add(1); go func() { defer ...; fn(tt) }()
RunWithGo ==
  /\ pc = "go"
  /\ wg' = wg + 1
  /\ task' = "body"
  /\ runs' = runs + 1
  /\ steps' = 0 /\ aborted' = FALSE /\ registered' = <<>> /\ ran' = <<>>
  /\ written' = <<>> /\ failedAt' = 0
  /\ pc' = "wait"
  /\ UNCHANGED <<policyVars, clockVars, ri, subtVars, cur, outerVars, outcomes, extVars>>

WaitReadyAlways == TRUE

\* wg.Wait() blocks until the WaitGroup counter is zero.
WaitReady == wg = 0

\* wg.Wait() returns.
RunWithWait ==
  /\ pc = "wait"
  /\ WaitReady
  /\ pc' = "check"
  /\ UNCHANGED <<policyVars, clockVars, wg, ri, subtVars, outerVars, outcomes>>
  /\ OrchFrame

AfterAttemptNoBreak(f) == "next"

\* What RunWith does after an attempt whose tt.failed reads f: continue or break.
AfterAttempt(f) == IF f THEN "next" ELSE "replay"

\* if tt.failed { continue }; break
RunWithCheck ==
  /\ pc = "check"
  /\ outcomes' = Append(outcomes, failed)
  /\ pc' = AfterAttempt(failed)
  /\ UNCHANGED <<policyVars, clockVars, wg, ri, subtVars, outerVars>>
  /\ OrchFrame

\* for _, s := range tt.logs { t.Log(s) }: one turn.
RunWithReplay ==
  /\ pc = "replay"
  /\ ri < Len(logs)
  /\ outerLogs' = Append(outerLogs, logs[ri + 1])
  /\ ri' = ri + 1
  /\ UNCHANGED <<policyVars, clockVars, pc, wg, subtVars, outerFailNow, outcomes>>
  /\ OrchFrame

FinalFailsNever == FALSE

\* Whether RunWith calls t.FailNow() after the replay.
FinalFails == failed

\* if tt.failed { t.FailNow() }
RunWithFailNow ==
  /\ pc = "replay"
  /\ ri >= Len(logs)
  /\ FinalFails
  /\ outerFailNow' = outerFailNow + 1
  /\ pc' = "done"
  /\ UNCHANGED <<policyVars, clockVars, wg, ri, subtVars, outerLogs, outcomes>>
  /\ OrchFrame

\* RunWith returns.
RunWithReturn ==
  /\ pc = "replay"
  /\ ri >= Len(logs)
  /\ ~FinalFails
  /\ pc' = "done"
  /\ UNCHANGED <<policyVars, clockVars, wg, ri, subtVars, outerVars, outcomes>>
  /\ OrchFrame

\* RunWith(t, p, fn) is entered with a fresh built-in policy p and tt = &SubT{}.
\* A Timer is given a sleep of at least one tick, so that the number of
\* attempts within its deadline is bounded.
Init ==
  /\ \/ \E a \in -1..MaxAttempts, s \in 0..MaxSleep : NewCounter(a, s)
     \/ \E t \in -1..MaxTimeout, s \in 1..MaxSleep : NewTimer(t, s)
  /\ now = Epoch /\ elapsed = 0 /\ calls = <<>>
  /\ pc = "next" /\ wg = 0 /\ ri = 0
  /\ logs = <<>> /\ failed = FALSE /\ cleanups = <<>> /\ ctx = "nil"
  /\ task = "none" /\ cur = NoCleanup
  /\ outerLogs = <<>> /\ outerFailNow = 0
  /\ runs = 0 /\ steps = 0 /\ aborted = FALSE
  /\ registered = <<>> /\ ran = <<>> /\ outcomes = <<>>
  /\ written = <<>> /\ failedAt = 0
  /\ ExtIdle

Next ==
  \/ RunWithNext
  \/ RunWithReset
  \/ RunWithGo
  \/ BodyLog
  \/ BodyLogf
  \/ BodyError
  \/ BodyErrorf
  \/ BodyFatal
  \/ BodyFatalf
  \/ BodyFail
  \/ BodyFailNow
  \/ BodyCleanup
  \/ BodyWork
  \/ BodyReturn
  \/ runCleanupsCancel
  \/ runCleanupsPop
  \/ runCleanupsCall
  \/ wgDone
  \/ RunWithWait
  \/ RunWithCheck
  \/ RunWithReplay
  \/ RunWithFailNow
  \/ RunWithReturn

Spec == Init /\ [][Next]_vars


\* ================================================================ claims

\* The calls recorded so far, by index.
Calls == 1..Len(calls)

\* C1: on a Counter built by NewCounter(N, s), call i of Next() returns true
\* exactly when i <= N (so N calls return true, for N >= 0, and every later one
\* returns false); it sleeps for s exactly before the true returns 2..N, and
\* neither before the first true return nor before a false return.
C1_CounterNext ==
  kind = "counter" =>
    \A i \in Calls :
      /\ calls[i].ret = (i <= attempts)
      /\ calls[i].slept = (1 < i /\ i <= attempts)
      /\ calls[i].slept => calls[i].dur = sleep /\ calls[i].end = calls[i].at + Max(sleep, 0)
      /\ ~calls[i].slept => calls[i].end = calls[i].at

C1_Witness ==
  /\ kind = "counter" /\ attempts = MaxAttempts /\ sleep > 0
  /\ Len(calls) >= MaxAttempts + 2
  /\ calls[MaxAttempts].ret /\ calls[MaxAttempts].slept
  /\ ~calls[MaxAttempts + 2].ret

\* C10: once Next() has returned false on a policy, Counter or Timer, every
\* later Next() call on it returns false, whatever time passes between calls.
C10_FalseIsTerminal ==
  \A i \in Calls : \A j \in Calls : (i < j /\ ~calls[i].ret) => ~calls[j].ret

C10_Witness ==
  /\ kind = "timer" /\ timeout > 0
  /\ Len(calls) >= 4
  /\ calls[2].ret /\ ~calls[3].ret /\ ~calls[4].ret
  /\ calls[4].at > calls[3].at

\* The retry loop of RunWith has ended.
LoopEnded == pc \in {"replay", "done"}

\* The attempts RunWith has judged so far, by index.
Attempts == 1..Len(outcomes)

\* The Next() calls that called time.Sleep.
SleptCalls == {i \in Calls : calls[i].slept}

\* The invocation k on which the body first passed; attempts + 1 when it has
\* failed on every invocation made.
FirstPass ==
  IF \E i \in Attempts : ~outcomes[i]
    THEN CHOOSE i \in Attempts :
           ~outcomes[i] /\ \A j \in Attempts : j < i => outcomes[j]
    ELSE attempts + 1

\* C2: RunWith with a Counter(N, s), N >= 1, whose body fails on its first
\* k-1 invocations and passes on invocation k (if ever): once the loop has
\* ended the body has been invoked exactly min(k, N) times, that is every
\* attempt but the last failed and the last one passed or was the N-th; and
\* exactly min(k, N) - 1 sleeps of s were made, none before the first attempt.
C2_RunsAndSleeps ==
  (kind = "counter" /\ attempts >= 1 /\ LoopEnded) =>
    /\ runs = Len(outcomes)
    /\ runs >= 1
    /\ runs = Min(FirstPass, attempts)
    /\ Cardinality(SleptCalls) = runs - 1
    /\ ~calls[1].slept
    /\ \A i \in SleptCalls : calls[i].dur = sleep

C2_Witness ==
  /\ kind = "counter" /\ attempts = 3 /\ pc = "done"
  /\ outcomes = <<TRUE, FALSE>> /\ runs = 2
  /\ Cardinality(SleptCalls) = 1

\* C3: once RunWith has returned or aborted the outer context, FailNow was
\* called on the outer context exactly once if the last attempt that ran was
\* marked failed and not at all if it passed, whatever the earlier attempts
\* did; before that it was not called.
C3_OuterFailNow ==
  /\ pc # "done" => outerFailNow = 0
  /\ (pc = "done" /\ runs >= 1) =>
       /\ Len(outcomes) = runs
       /\ outerFailNow = IF outcomes[runs] THEN 1 ELSE 0

C3_Witness ==
  /\ pc = "done" /\ runs >= 2
  /\ outcomes[runs] /\ outerFailNow = 1

\* C4: the Log calls RunWith makes on the outer context are exactly the lines
\* the last attempt logged, in the order logged, each trimmed; none is a line of
\* an earlier attempt; none is made before the loop has ended and the last
\* attempt's goroutine with its cleanups has finished; all are made before the
\* outer FailNow.
C4_Replay ==
  /\ ~LoopEnded => outerLogs = <<>>
  /\ LoopEnded =>
       /\ task = "none" /\ cleanups = <<>>
       /\ Len(outerLogs) = ri
       /\ Len(outerLogs) <= Len(written)
       /\ \A i \in 1..Len(outerLogs) : outerLogs[i] = written[i]
       /\ \A i \in 1..Len(outerLogs) : outerLogs[i].att = runs
  /\ pc = "done" => outerLogs = written
  /\ outerFailNow > 0 => pc = "done"

C4_Witness ==
  /\ pc = "done" /\ runs >= 2
  /\ Len(outerLogs) >= 2
  /\ outerFailNow = 1

\* C5: a FailNow, Fatal or Fatalf call of the body sets the failed flag and
\* ends the body at once: no later statement of that attempt executes.  Fatal
\* and Fatalf record exactly one log line, FailNow none.  RunWith's own task is
\* not affected: it stays at the join, the join returns once the goroutine has
\* finished, and RunWith then reads the attempt as failed and queries the policy
\* again (or replays, when the policy refuses).
C5_AbortStep ==
  /\ (BodyFatal \/ BodyFatalf) => Len(logs') = Len(logs) + 1
  /\ BodyFailNow => logs' = logs
  /\ (BodyFatal \/ BodyFatalf \/ BodyFailNow) =>
       /\ failed' /\ aborted' /\ task' # "body"
       /\ pc = "wait" /\ pc' = "wait"
  /\ (aborted /\ pc = "wait") =>
       /\ steps' = steps /\ logs' = logs /\ written' = written
       /\ registered' = registered
       /\ pc' \in {"wait", "check"}
  /\ (aborted /\ pc = "check") => pc' = "next"

C5_AbortInv ==
  /\ (aborted /\ pc \in {"wait", "check"}) => failed /\ task # "body"
  /\ (aborted /\ pc = "wait" /\ task = "none") => ENABLED RunWithWait
  /\ (aborted /\ pc = "check") => task = "none"

\* C5, as one formula: the invariant part in every state and the step part on
\* every step.
C5_Abort == []C5_AbortInv /\ [][C5_AbortStep]_vars

C5_Witness ==
  /\ aborted /\ steps = 2 /\ Len(logs) = 2
  /\ pc = "next" /\ outcomes[runs]

\* C6: a Fail, Error or Errorf call of the body sets the failed flag and the
\* body goes on: it is still running after the call and can execute its later
\* statements; when it then returns normally RunWith reads the attempt as failed
\* and queries the policy for a retry.
C6_FailStep ==
  /\ (BodyFail \/ BodyError \/ BodyErrorf) =>
       /\ failed' /\ task' = "body" /\ aborted' = aborted
       /\ steps' = steps + 1
  /\ (failedAt > 0 /\ pc = "check") => pc' = "next" /\ outcomes'[runs]

C6_FailInv ==
  /\ (failedAt > 0 /\ pc \in {"wait", "check"}) => failed
  /\ (failedAt > 0 /\ ~aborted /\ task = "body" /\ steps < MaxOps) =>
       ENABLED BodyLog /\ ENABLED BodyCleanup

\* C6, as one formula: the invariant part in every state and the step part on
\* every step.
C6_Fail == []C6_FailInv /\ [][C6_FailStep]_vars

C6_Witness ==
  /\ failedAt = 1 /\ ~aborted /\ steps = 3
  /\ Len(written) >= 1 /\ written[Len(written)].seq = 3
  /\ pc = "next" /\ outcomes[runs]

\* C7: in every attempt, the cleanups the body registered are executed each
\* exactly once, in the reverse of their registration order, and only after the
\* body has stopped, whether it returned or aborted.
C7_Cleanups ==
  /\ task = "body" => ran = <<>> /\ cur = NoCleanup
  /\ Len(ran) <= Len(registered)
  /\ \A i \in 1..Len(ran) : ran[i] = Reverse(registered)[i]
  /\ task = "cleanup" => cur = Reverse(registered)[Len(ran) + 1]
  /\ task \in {"wgdone", "none"} => ran = Reverse(registered)

C7_Witness ==
  /\ aborted /\ Len(registered) = 2
  /\ ran = Reverse(registered) /\ ran # registered
  /\ pc = "check"

\* C8: attempts never overlap.  Whenever RunWith is anywhere but at the join
\* (querying the policy, resetting tt, starting the next goroutine, judging the
\* attempt, replaying) no attempt goroutine exists and every cleanup of the
\* attempt before has run to completion; the goroutine that exists belongs to
\* the latest attempt and runs only that attempt's cleanups.
C8_NoOverlap ==
  /\ wg \in {0, 1}
  /\ pc # "wait" =>
       /\ task = "none" /\ wg = 0
       /\ cleanups = <<>> /\ cur = NoCleanup
       /\ ran = Reverse(registered)
  /\ task # "none" => wg = 1 /\ pc = "wait"
  /\ \A i \in 1..Len(ran) : ran[i].att = runs
  /\ \A i \in 1..Len(cleanups) : cleanups[i].att = runs

C8_Witness ==
  /\ pc = "go" /\ runs >= 1
  /\ Len(ran) >= 2 /\ ran[1].att = runs

\* C9 as stated: the first Next() call on a fresh built-in policy returns true
\* whatever its budget, so RunWith invokes the body at least once.
C9_Original ==
  /\ Len(calls) >= 1 => calls[1].ret
  /\ pc = "done" => runs >= 1

\* C9 amended: the first Next() call on a fresh Timer returns true whatever its
\* timeout, zero and negative included; on a fresh Counter it returns true
\* exactly when attempts >= 1.  So RunWith invokes the body at least once with a
\* fresh Timer or a Counter of at least one attempt, and not at all with a
\* Counter of zero or fewer attempts.
C9_FirstCall ==
  /\ Len(calls) >= 1 => (calls[1].ret <=> (kind = "timer" \/ attempts >= 1))
  /\ pc = "done" => (runs >= 1 <=> (kind = "timer" \/ attempts >= 1))

C9_Witness ==
  /\ kind = "timer" /\ timeout <= 0
  /\ pc = "done" /\ runs >= 1
  /\ calls[1].ret

\* The clock at the first Next() call on the Timer, and its deadline.
T0 == calls[1].at

Deadline == T0 + timeout

\* C11 as stated: the first call returns true without sleeping; every true
\* return happens no later than t0 + T + S; every call that starts after
\* t0 + T returns false without sleeping.
C11_Original ==
  kind = "timer" =>
    \A i \in Calls :
      /\ i = 1 => calls[i].ret /\ ~calls[i].slept
      /\ calls[i].ret => calls[i].end <= T0 + timeout + sleep
      /\ calls[i].at > Deadline => ~calls[i].ret /\ ~calls[i].slept

\* C11 amended: on a Timer built by NewTimer(T, S) whose first Next() call is
\* made at t0, the first call returns true without sleeping; every true return
\* happens no later than t0 + max(T, 0) + max(S, 0), whatever time the caller
\* spends between calls; every call after the first that starts after t0 + T
\* returns false without sleeping.
C11_TimerNext ==
  kind = "timer" =>
    \A i \in Calls :
      /\ i = 1 => calls[i].ret /\ ~calls[i].slept /\ calls[i].end = calls[i].at
      /\ calls[i].ret => calls[i].end <= T0 + Max(timeout, 0) + Max(sleep, 0)
      /\ (i > 1 /\ calls[i].at > Deadline) =>
           ~calls[i].ret /\ ~calls[i].slept /\ calls[i].end = calls[i].at

C11_Witness ==
  /\ kind = "timer" /\ timeout > 0 /\ sleep > 0
  /\ Len(calls) >= 3
  /\ calls[2].ret /\ calls[2].at = Deadline
  /\ calls[2].end = Deadline + sleep
  /\ ~calls[3].ret

\* C12: when the policy's first Next() call returns false, RunWith leaves the
\* loop at once and returns normally: the body is never invoked, no goroutine
\* is started, no cleanup is registered or run, and neither Log nor FailNow is
\* called on the outer context.
C12_NoAttempt ==
  (Len(calls) >= 1 /\ ~calls[1].ret) =>
    /\ pc \in {"replay", "done"}
    /\ Len(calls) = 1
    /\ runs = 0 /\ task = "none" /\ wg = 0
    /\ registered = <<>> /\ ran = <<>> /\ cleanups = <<>>
    /\ logs = <<>> /\ ~failed /\ ctx = "nil"
    /\ outerLogs = <<>> /\ outerFailNow = 0
    /\ pc = "replay" => ENABLED RunWithReturn /\ ~ENABLED RunWithFailNow

C12_Witness ==
  /\ pc = "done" /\ Len(calls) = 1
  /\ ~calls[1].ret /\ runs = 0

\* C14, the step part: only the deferred function's runCleanups cancels the
\* attempt's context, after the body's goroutine left the body, and no cleanup
\* is popped or called before that.
C14_CancelStep ==
  /\ (ctx # "cancelled" /\ ctx' = "cancelled") =>
       /\ task = "defer" /\ task' = "pop"
       /\ ran' = ran
  /\ task' = "body" => ctx' = "live"
  /\ Len(ran') > Len(ran) => ctx = "cancelled" /\ ctx' = "cancelled"

\* C14, the state part: the context is live while the body runs and cancelled
\* while the cleanups are popped and called.
C14_CancelInv ==
  /\ task = "body" => ctx = "live"
  /\ task \in {"pop", "cleanup", "wgdone"} => ctx = "cancelled"

\* C14: in every attempt the context returned by SubT.Context() is cancelled
\* before the first cleanup of that attempt is invoked and stays cancelled
\* while every cleanup runs, after a normal return of the body and after an
\* abort alike; it is not cancelled while the body still runs.
C14_CancelBeforeCleanups == []C14_CancelInv /\ [][C14_CancelStep]_vars

C14_Witness ==
  /\ task = "cleanup" /\ aborted /\ runs = 2
  /\ ctx = "cancelled"
  /\ Len(ran) = 1 /\ Len(registered) = 2
  /\ outcomes = <<TRUE>>

\* ---------------------------------------------------------------------------
\* RunWith under an outer context that exposes Context() (tContext): baseCtx is
\* that context, and its owner may cancel it at any time.

\* RunWith is called with a Counter policy and an outer context that exposes
\* no context (background), a live one or one already cancelled.
InitCtx ==
  /\ \E a \in 1..MaxAttempts : NewCounter(a, 0)
  /\ now = Epoch /\ elapsed = 0 /\ calls = <<>>
  /\ pc = "next" /\ wg = 0 /\ ri = 0
  /\ logs = <<>> /\ failed = FALSE /\ cleanups = <<>> /\ ctx = "nil"
  /\ task = "none" /\ cur = NoCleanup
  /\ outerLogs = <<>> /\ outerFailNow = 0
  /\ runs = 0 /\ steps = 0 /\ aborted = FALSE
  /\ registered = <<>> /\ ran = <<>> /\ outcomes = <<>>
  /\ written = <<>> /\ failedAt = 0
  /\ base \in {"background", "live", "cancelled"}
  /\ helper = NoHelper
  /\ ckinds = <<>>
  /\ HttpIdle
  /\ MuIdle
  /\ OneRun
  /\ QueryIdle
  /\ ConnIdle

\* The owner of the outer context cancels it: every context derived from it
\* with context.WithCancel and not yet cancelled is cancelled with it.
OuterCancel ==
  /\ base = "live"
  /\ pc # "done"
  /\ base' = "cancelled"
  /\ ctx' = IF ctx = "live" THEN "cancelled" ELSE ctx
  /\ UNCHANGED <<policyVars, clockVars, orchVars, logs, failed, cleanups,
                 taskVars, outerVars, obsVars, helper, ckinds, httpVars,
                 muVars,
                 runVars, queryVars, connVars>>

NextCtx ==
  \/ Next
  \/ OuterCancel

SpecCtx == InitCtx /\ [][NextCtx]_vars

\* C15, the state part: from tt.reset to the end of the body the attempt's
\* context is cancelled exactly when the outer context is, and a cancelled
\* outer context leaves no live attempt context.
C15_ScopeInv ==
  /\ (pc = "go" \/ task = "body") => (ctx = "cancelled" <=> base = "cancelled")
  /\ (base = "cancelled" /\ ctx # "nil") => ctx = "cancelled"
  /\ base = "background" => (task = "body" => ctx = "live")

\* C15, the step part: tt.reset installs a context that is cancelled only when
\* the outer one is, whatever the attempt before left behind, and a
\* cancellation of the outer context reaches a live attempt context at once.
C15_ScopeStep ==
  /\ (pc = "reset" /\ pc' = "go") =>
       (ctx' = "cancelled" <=> base = "cancelled")
  /\ (base = "live" /\ base' = "cancelled" /\ ctx # "nil") => ctx' = "cancelled"

\* C15: every attempt gets a fresh cancellation scope derived from the outer
\* context's context, or from a never-cancelled background context.  At the
\* start of the body the scope is cancelled if and only if the outer context
\* already is; the cancellation done by the cleanup phase of attempt N does not
\* reach attempt N+1; cancelling the outer context during an attempt cancels
\* the attempt's scope.
C15_FreshScope == []C15_ScopeInv /\ [][C15_ScopeStep]_vars

C15_Witness ==
  /\ runs = 2 /\ task = "body"
  /\ base = "live" /\ ctx = "live"
  /\ outcomes = <<TRUE>>

\* ---------------------------------------------------------------------------
\* RunWith with a body that starts a helper goroutine.  The helper holds the
\* *SubT it was given, which RunWith reuses for every attempt (tt := &SubT{}
\* before the loop), and runs on its own: nothing in RunWith waits for it.

MaxHelperOps == 2

InitHelper ==
  /\ \E a \in 1..MaxAttempts : NewCounter(a, 0)
  /\ now = Epoch /\ elapsed = 0 /\ calls = <<>>
  /\ pc = "next" /\ wg = 0 /\ ri = 0
  /\ logs = <<>> /\ failed = FALSE /\ cleanups = <<>> /\ ctx = "nil"
  /\ task = "none" /\ cur = NoCleanup
  /\ outerLogs = <<>> /\ outerFailNow = 0
  /\ runs = 0 /\ steps = 0 /\ aborted = FALSE
  /\ registered = <<>> /\ ran = <<>> /\ outcomes = <<>>
  /\ written = <<>> /\ failedAt = 0
  /\ ExtIdle

\* What the helper passes to Log and Error: told apart from the body's
\* messages by its sign and tagged with the attempt that started the helper.
HelperMsg == [att |-> helper.att, seq |-> 0 - (helper.ops + 1), nl |-> 0]

HelperFrame ==
  UNCHANGED <<policyVars, clockVars, orchVars, cleanups, ctx, taskVars,
              outerVars, obsVars, base, ckinds, httpVars, muVars,
              runVars, queryVars, connVars>>

\* The body's statement go func() { ... tt ... }()
BodyGoHelper ==
  /\ InBody /\ Stmt
  /\ helper.state = "none"
  /\ helper' = [state |-> "live", att |-> runs, ops |-> 0]
  /\ UNCHANGED <<policyVars, clockVars, orchVars, subtVars, task, cur,
                 outerVars, runs, aborted, registered, ran, outcomes, written,
                 failedAt, base, ckinds, httpVars, muVars,
                 runVars, queryVars, connVars>>

HelperActs == helper.state = "live" /\ helper.ops < MaxHelperOps

HelperStep == helper' = [helper EXCEPT !.ops = @ + 1]

\* The helper calls tt.Log.  RunWith's replay ranges over the slice it read
\* when the loop began, so a line appended later is not replayed.
HelperLog ==
  /\ HelperActs /\ HelperStep
  /\ pc \notin {"replay", "done"}
  /\ Log(HelperMsg)
  /\ UNCHANGED failed
  /\ HelperFrame

\* The helper calls tt.Fail.
HelperFail ==
  /\ HelperActs /\ HelperStep
  /\ pc # "done"
  /\ Fail
  /\ UNCHANGED logs
  /\ HelperFrame

\* The helper calls tt.Error.
HelperError ==
  /\ HelperActs /\ HelperStep
  /\ pc \notin {"replay", "done"}
  /\ Error(HelperMsg)
  /\ HelperFrame

\* The helper's function returns.
HelperReturn ==
  /\ helper.state = "live"
  /\ helper' = [helper EXCEPT !.state = "gone"]
  /\ UNCHANGED <<logs, failed>>
  /\ HelperFrame

NextHelper ==
  \/ Next
  \/ BodyGoHelper
  \/ HelperLog
  \/ HelperFail
  \/ HelperError
  \/ HelperReturn

SpecHelper == InitHelper /\ [][NextHelper]_vars

\* C13, the state part: what RunWith replays to the outer context was written
\* by the last attempt, and it fails the outer context only for a failure of
\* the last attempt.
C13_LeakInv ==
  /\ \A i \in 1..Len(outerLogs) : outerLogs[i].att = runs
  /\ outerFailNow > 0 => (failedAt > 0 \/ helper.att = runs)

\* C13, the step part: the body of every attempt starts with an empty log
\* buffer and a false failed flag.
C13_LeakStep ==
  (task # "body" /\ task' = "body") => (logs' = <<>> /\ ~failed')

\* C13: no data written during attempt N is visible in attempt N+1.  Every
\* body starts with an empty log buffer and a false failed flag, and the lines
\* replayed and the verdict surfaced by RunWith come from the last attempt
\* only, also when an earlier attempt's body started a helper goroutine that
\* calls Log, Fail or Error after that body finished.
C13_NoLeak == []C13_LeakInv /\ [][C13_LeakStep]_vars

\* ---------------------------------------------------------------------------
\* The mock http server (package http): On, Times, the handler and
\* AssertExpectations, called one after the other by a test that registers its
\* expectations, lets the clients make their requests and then asserts, as the
\* tests of server_test.go do.

MaxExpect == 2
MaxTimes == 2
MaxRequests == 3

\* const Anything
Anything == "httptest.Anything"

\* A raw query string: its key=value pairs in the order written.  A path
\* passed to On is the part before "?" and, when there is a "?", the raw query
\* after it; a *url.Values is <<>> when nil and <<q>> when it points to q.
MaxPairs == 2
QueryKeys == {"a", "b"}
QueryValues == {"1", "2"}
QueryPairs == QueryKeys \X QueryValues
RawQueries == UNION {[1..n -> QueryPairs] : n \in 0..MaxPairs}

\* The values a raw query gives to key k, in the order written.
ValuesOf(raw, k) ==
  LET IsK(p) == p[1] = k
      sel == SelectSeq(raw, IsK)
  IN  [i \in 1..Len(sel) |-> sel[i][2]]

\* url.ParseQuery: the url.Values of a raw query.
ParseQuery(raw) == [k \in {raw[i][1] : i \in DOMAIN raw} |-> ValuesOf(raw, k)]

\* url.Values.Has
Has(q, k) == k \in DOMAIN q

\* The first index of b that holds element, 0 when there is none.
IndexOf(element, b) ==
  IF \E j \in 1..Len(b) : b[j] = element
  THEN CHOOSE j \in 1..Len(b) :
         b[j] = element /\ \A h \in 1..(j - 1) : b[h] # element
  ELSE 0

\* elementsMatch(a, b): each element of a takes the first element of b equal
\* to it that no earlier element of a has taken.
RECURSIVE elementsMatch(_, _)
elementsMatch(a, b) ==
  IF a = <<>> THEN TRUE
  ELSE IF IndexOf(Head(a), b) = 0 THEN FALSE
  ELSE elementsMatch(Tail(a), Remove(b, IndexOf(Head(a), b)))

\* The orders in which range may visit the keys of the map q.
Orders(q) ==
  {o \in [1..Cardinality(DOMAIN q) -> DOMAIN q] :
     \A i, j \in DOMAIN o : o[i] = o[j] => i = j}

\* The loop of requestMatches over *exp.qry, its keys visited in the given
\* order: the value of found when the loop ends.
RECURSIVE rangeQuery(_, _, _, _)
rangeQuery(expq, qry, order, found) ==
  IF order = <<>> THEN found
  ELSE IF ~Has(qry, Head(order)) THEN found
  ELSE rangeQuery(expq, qry, Tail(order),
                  found \/ elementsMatch(expq[Head(order)], qry[Head(order)]))

\* glob.Glob for the patterns of OnArgs: "*" stands for any run of characters.
Glob(pattern, subj) == pattern = "/*" \/ pattern = subj

\* requestMatches(req, exp), range visiting the keys of *exp.qry in order.
requestMatches(req, exp, order) ==
  /\ ~(exp.method # req.method /\ exp.method # Anything)
  /\ ~(exp.path # Anything /\ ~Glob(exp.path, req.path))
  /\ exp.qry # <<>> => rangeQuery(exp.qry[1], ParseQuery(req.raw), order, FALSE)

\* The orders range may take in one call of requestMatches: none to take
\* when exp.qry is nil.
RangeOrders(qry) == IF qry = <<>> THEN {<<>>} ELSE Orders(qry[1])

\* requestMatches for an expectation whose query is nil or has at most one
\* key, where range has one order to take.
Matches(req, exp) ==
  requestMatches(req, exp, CHOOSE o \in RangeOrders(exp.qry) : TRUE)

\* The requests the clients make and what the test passes to On.
Requests ==
  {[method |-> "GET", path |-> "/a", raw |-> <<<<"a", "1">>>>],
   [method |-> "GET", path |-> "/a", raw |-> <<>>],
   [method |-> "POST", path |-> "/b", raw |-> <<>>]}
OnArgs ==
  {[method |-> "GET", path |-> [path |-> "/a", query |-> <<>>]],
   [method |-> Anything, path |-> [path |-> "/*", query |-> <<>>]],
   [method |-> "POST", path |-> [path |-> Anything, query |-> <<>>]],
   [method |-> "GET", path |-> [path |-> "/a", query |-> <<<<<<"a", "1">>>>>>]]}

NoRequest == [method |-> "", path |-> "", raw |-> <<>>]

\* Server.On: the expectation it appends and returns.
On(method, path) ==
  [id |-> Len(registry) + 1, method |-> method, path |-> path.path,
   qry |-> IF path.query = <<>> THEN <<>> ELSE <<ParseQuery(path.query[1])>>,
   times |-> -1, called |-> -1]

\* Expectation.Times
Times(e, n) == [e EXCEPT !.times = n, !.called = n]

\* ords[i] is the order range takes when the loop calls requestMatches on
\* s.expect[i].
OrderChoices ==
  {ords \in [1..Len(expect) ->
               UNION {RangeOrders(expect[i].qry) : i \in 1..Len(expect)}] :
     \A i \in 1..Len(expect) : ords[i] \in RangeOrders(expect[i].qry)}

\* The expectations of s.expect that match, and the first of them, where the
\* handler's loop stops.
Matching(req, ords) ==
  {i \in 1..Len(expect) : requestMatches(req, expect[i], ords[i])}

FirstMatch(req, ords) ==
  CHOOSE i \in Matching(req, ords) : \A j \in Matching(req, ords) : i <= j

DecrementUp(e) == [e EXCEPT !.called = @ + 1]

\* exp.called--
Decrement(e) == [e EXCEPT !.called = @ - 1]

\* if exp.called == 0
Exhausted(e) == e.called = 0

\* The expectation list after expectation i served a request.
AfterServe(i) ==
  IF Exhausted(Decrement(expect[i]))
  THEN Remove(expect, i)
  ELSE [expect EXCEPT ![i] = Decrement(expect[i])]

\* One t.Errorf call: its message and the values formatted into it.
Report(k, e, req) ==
  [kind |-> k, id |-> e.id, req |-> req, times |-> e.times,
   got |-> e.times - e.called]

NoExpectation == [id |-> 0, times |-> 0, called |-> 0]

\* Server.handler
handler(req, ords) ==
  IF Matching(req, ords) # {}
  THEN /\ served' = Append(served, [req |-> req,
                                    id |-> expect[FirstMatch(req, ords)].id])
       /\ expect' = AfterServe(FirstMatch(req, ords))
       /\ reports' = reports
  ELSE /\ reports' = Append(reports, Report("unexpected", NoExpectation, req))
       /\ UNCHANGED <<expect, served>>

\* The switch of AssertExpectations: the expectations it reports.
Unmet(e) == e.called = -1 \/ e.called > 0

AssertReport(e) ==
  IF e.called = -1
  THEN Report("none", e, NoRequest)
  ELSE Report("fewer", e, NoRequest)

\* Server.AssertExpectations: its t.Errorf calls, in the order of s.expect.
AssertReports ==
  LET u == SelectSeq(expect, Unmet)
  IN [i \in 1..Len(u) |-> AssertReport(u[i])]

\* No retry runs beside the mock server.
NoRetry ==
  /\ kind = "none" /\ attempts = 0 /\ sleep = 0 /\ count = 0
  /\ timeout = 0 /\ stop = ZeroTime
  /\ now = Epoch /\ elapsed = 0 /\ calls = <<>>
  /\ pc = "idle" /\ wg = 0 /\ ri = 0
  /\ logs = <<>> /\ failed = FALSE /\ cleanups = <<>> /\ ctx = "nil"
  /\ task = "none" /\ cur = NoCleanup
  /\ outerLogs = <<>> /\ outerFailNow = 0
  /\ runs = 0 /\ steps = 0 /\ aborted = FALSE
  /\ registered = <<>> /\ ran = <<>> /\ outcomes = <<>>
  /\ written = <<>> /\ failedAt = 0
  /\ base = "background" /\ helper = NoHelper /\ ckinds = <<>>
  /\ MuIdle
  /\ session = [n |-> 0, spent |-> FALSE]

\* NewServer(t)
NewServer ==
  /\ expect = <<>> /\ registry = <<>>
  /\ served = <<>> /\ reports = <<>>
  /\ hpc = "setup"

InitHttp == NoRetry /\ NewServer /\ QueryIdle /\ ConnIdle

HttpFrame ==
  UNCHANGED <<policyVars, clockVars, orchVars, subtVars, taskVars, outerVars,
              obsVars, base, helper, ckinds, muVars,
              runVars, queryVars, connVars>>

\* s.On(method, path)
ServerOn ==
  /\ hpc = "setup"
  /\ Len(registry) < MaxExpect
  /\ \E a \in OnArgs :
       /\ expect' = Append(expect, On(a.method, a.path))
       /\ registry' = Append(registry, On(a.method, a.path))
  /\ UNCHANGED <<served, reports, hpc>>
  /\ HttpFrame

\* s.On(method, path).Times(n)
ServerOnTimes ==
  /\ hpc = "setup"
  /\ Len(registry) < MaxExpect
  /\ \E a \in OnArgs, n \in 0..MaxTimes :
       /\ expect' = Append(expect, Times(On(a.method, a.path), n))
       /\ registry' = Append(registry, Times(On(a.method, a.path), n))
  /\ UNCHANGED <<served, reports, hpc>>
  /\ HttpFrame

\* A client's request reaches the server and the handler runs to its end.
ServerRequest ==
  /\ hpc \in {"setup", "serving"}
  /\ Len(served) + Len(reports) < MaxRequests
  /\ \E req \in Requests, ords \in OrderChoices : handler(req, ords)
  /\ hpc' = "serving"
  /\ UNCHANGED registry
  /\ HttpFrame

\* s.AssertExpectations(), the last call of the test.
ServerAssert ==
  /\ hpc \in {"setup", "serving"}
  /\ reports' = reports \o AssertReports
  /\ hpc' = "asserted"
  /\ UNCHANGED <<expect, registry, served>>
  /\ HttpFrame

NextHttp ==
  \/ ServerOn
  \/ ServerOnTimes
  \/ ServerRequest
  \/ ServerAssert

SpecHttp == InitHttp /\ [][NextHttp]_vars

\* The number of requests the expectation registered as number id served.
ServedBy(id) == Cardinality({k \in 1..Len(served) : served[k].id = id})

\* Whether that expectation is still in s.expect.
InList(id) == \E j \in 1..Len(expect) : expect[j].id = id

\* C16: for sequential requests and every n >= 0 an expectation configured
\* with On(method, path).Times(n) serves at most n matching requests, and once
\* it has served n it is out of the list, so that a further request matching
\* nothing else is reported as unexpected.
C16_AtMostN ==
  \A i \in 1..Len(registry) :
    registry[i].times >= 0 =>
      /\ ServedBy(i) <= registry[i].times
      /\ (ServedBy(i) >= 1 /\ ServedBy(i) >= registry[i].times) => ~InList(i)

\* The t.Errorf calls made by AssertExpectations.
AssertErrors == SelectSeq(reports, LAMBDA r : r.kind \in {"none", "fewer"})

\* The registered expectations that have not received their calls: never
\* called (unlimited, or Times(n) with n >= 1), or Times(n) called fewer than
\* n times.
Lacking ==
  {i \in 1..Len(registry) :
     \/ registry[i].times = -1 /\ ServedBy(i) = 0
     \/ registry[i].times >= 1 /\ ServedBy(i) < registry[i].times}

\* C17: AssertExpectations reports an error exactly when some registered
\* expectation has not received its calls, one error for each such
\* expectation, and none when every Times(n) expectation was called exactly n
\* times and every unlimited expectation at least once.
C17_AssertExact ==
  hpc = "asserted" =>
    /\ Len(AssertErrors) = Cardinality(Lacking)
    /\ {AssertErrors[k].id : k \in 1..Len(AssertErrors)} = Lacking

\* The requests made so far that the expectation registered as number i
\* matches.
MatchingRequests(i) ==
  Cardinality({k \in 1..Len(served) : Matches(served[k].req, registry[i])})

\* Whether AssertExpectations reported the expectation registered as number i.
Reported(i) == \E k \in 1..Len(AssertErrors) : AssertErrors[k].id = i

\* The claim as stated: an expectation without Times stays in the list, every
\* request it matches is served without an error, and after k >= 1 matching
\* requests AssertExpectations reports no error for it.
C18_Original ==
  \A i \in 1..Len(registry) :
    registry[i].times = -1 =>
      /\ InList(i)
      /\ \A k \in 1..Len(reports) :
           reports[k].kind = "unexpected" => ~Matches(reports[k].req, registry[i])
      /\ (hpc = "asserted" /\ MatchingRequests(i) >= 1) => ~Reported(i)

\* C18: an expectation registered with On and no Times call is unlimited.  It
\* stays in the expectation list whatever it serves, with its counter at
\* -1 - k after serving k requests; every request it matches is served without
\* an error being reported; and AssertExpectations reports no error for it
\* once it has served k >= 1 requests, that is, requests it matches and no
\* expectation before it in the list matches.
C18_Unlimited ==
  \A i \in 1..Len(registry) :
    registry[i].times = -1 =>
      /\ InList(i)
      /\ \A j \in 1..Len(expect) :
           expect[j].id = i => expect[j].called = -1 - ServedBy(i)
      /\ \A k \in 1..Len(reports) :
           reports[k].kind = "unexpected" => ~Matches(reports[k].req, registry[i])
      /\ (hpc = "asserted" /\ ServedBy(i) >= 1) => ~Reported(i)
      /\ (hpc = "asserted" /\ ServedBy(i) = 0) => Reported(i)

C18_Witness ==
  /\ hpc = "asserted"
  /\ Len(registry) = 1 /\ registry[1].times = -1
  /\ ServedBy(1) = MaxRequests
  /\ reports = <<>>

\* ---------------------------------------------------------------------------
\* The calls on tt at the grain of the mutex: the body's goroutine and a helper
\* goroutine it started call Log, Fail and Cleanup on the same *SubT during
\* one attempt.  A call is entered, takes t.mu if the method does, accesses
\* its field, and returns (the deferred Unlock).

Ops == {"Log", "Fail", "Cleanup"}

\* Whether the method starts with t.mu.Lock(); defer t.mu.Unlock().
Locks(o) == o \in {"Log", "Cleanup"}

\* The field of SubT the method writes.
Field(o) ==
  CASE o = "Log" -> "logs"
    [] o = "Fail" -> "failed"
    [] o = "Cleanup" -> "cleanups"
    [] OTHER -> "none"

\* The goroutine can start a call on tt.
Active(t) == IF t = "body" THEN InBody ELSE HelperActs

\* The cleanup function a helper registers.
HelperCleanup == [att |-> helper.att, k |-> 0 - (helper.ops + 1)]

MuFrame ==
  UNCHANGED <<policyVars, clockVars, orchVars, ctx, task, cur, outerVars,
              runs, aborted, ran, outcomes, base, ckinds, httpVars,
              runVars, queryVars, connVars>>

\* A goroutine calls a method of tt.
MuCall ==
  /\ \E t \in Tasks, o \in Ops :
       /\ Active(t)
       /\ thr[t] = IdleThread
       /\ thr' = [thr EXCEPT ![t] = [op |-> o, at |-> "call"]]
  /\ UNCHANGED <<mu, logs, failed, cleanups, steps, registered, written,
                 failedAt, helper>>
  /\ MuFrame

\* t.mu.Lock()
MuLock ==
  /\ \E t \in Tasks :
       /\ thr[t].at = "call"
       /\ Locks(thr[t].op)
       /\ mu = "free"
       /\ mu' = t
       /\ thr' = [thr EXCEPT ![t].at = "access"]
  /\ UNCHANGED <<logs, failed, cleanups, steps, registered, written,
                 failedAt, helper>>
  /\ MuFrame

\* A method that takes no lock reaches its assignment.
MuEnter ==
  /\ \E t \in Tasks :
       /\ thr[t].at = "call"
       /\ ~Locks(thr[t].op)
       /\ thr' = [thr EXCEPT ![t].at = "access"]
  /\ UNCHANGED <<mu, logs, failed, cleanups, steps, registered, written,
                 failedAt, helper>>
  /\ MuFrame

\* The body's goroutine completes its assignment to the field.
MuWriteBody ==
  /\ thr["body"].at = "access"
  /\ thr' = [thr EXCEPT !["body"].at = "written"]
  /\ CASE thr["body"].op = "Log" ->
            /\ Log(Msg(0)) /\ Wrote
            /\ UNCHANGED <<failed, cleanups, registered, failedAt>>
       [] thr["body"].op = "Fail" ->
            /\ Fail /\ MarkFailed
            /\ UNCHANGED <<logs, cleanups, registered, written>>
       [] OTHER ->
            /\ Cleanup(NewCleanup)
            /\ registered' = Append(registered, NewCleanup)
            /\ UNCHANGED <<logs, failed, written, failedAt>>
  /\ UNCHANGED <<mu, steps, helper>>
  /\ MuFrame

\* The helper goroutine completes its assignment to the field.
MuWriteHelper ==
  /\ thr["helper"].at = "access"
  /\ thr' = [thr EXCEPT !["helper"].at = "written"]
  /\ CASE thr["helper"].op = "Log" ->
            /\ Log(HelperMsg)
            /\ UNCHANGED <<failed, cleanups, registered>>
       [] thr["helper"].op = "Fail" ->
            /\ Fail
            /\ UNCHANGED <<logs, cleanups, registered>>
       [] OTHER ->
            /\ Cleanup(HelperCleanup)
            /\ registered' = Append(registered, HelperCleanup)
            /\ UNCHANGED <<logs, failed>>
  /\ UNCHANGED <<mu, steps, written, failedAt, helper>>
  /\ MuFrame

\* The method returns: the deferred t.mu.Unlock() runs if the lock was taken.
MuReturn ==
  /\ \E t \in Tasks :
       /\ thr[t].at = "written"
       /\ thr' = [thr EXCEPT ![t] = IdleThread]
       /\ mu' = IF mu = t THEN "free" ELSE mu
       /\ steps' = IF t = "body" THEN steps + 1 ELSE steps
       /\ helper' = IF t = "helper" THEN [helper EXCEPT !.ops = @ + 1] ELSE helper
  /\ UNCHANGED <<logs, failed, cleanups, registered, written, failedAt>>
  /\ MuFrame

\* The body starts its helper between two calls on tt.
MuGoHelper ==
  /\ thr["body"] = IdleThread
  /\ BodyGoHelper

NextMutex ==
  \/ RunWithNext
  \/ RunWithReset
  \/ RunWithGo
  \/ MuGoHelper
  \/ MuCall
  \/ MuLock
  \/ MuEnter
  \/ MuWriteBody
  \/ MuWriteHelper
  \/ MuReturn

SpecMutex == InitHelper /\ [][NextMutex]_vars

\* C19: every write to the log buffer, the failed flag and the cleanup stack
\* of the attempt context is made while holding the context's mutex, so the
\* body and its helper never write the same field at the same time.
C19_Locked ==
  /\ \A t \in Tasks : thr[t].at = "access" => mu = t
  /\ \A t, u \in Tasks :
       (t # u /\ thr[t].at = "access" /\ thr[u].at = "access") =>
         Field(thr[t].op) # Field(thr[u].op)

\* ---------------------------------------------------------------------------
\* RunWith with cleanups that fail: the function given to Cleanup calls
\* tt.Fail or tt.FailNow when runCleanups invokes it.

\* The body registers a cleanup that will fail.
BodyCleanupFailing ==
  /\ InBody /\ Stmt
  /\ Cleanup(NewCleanup)
  /\ registered' = Append(registered, NewCleanup)
  /\ \E k \in {"fail", "failnow"} : ckinds' = (NewCleanup :> k) @@ ckinds
  /\ UNCHANGED <<logs, failed, task, aborted, written, failedAt>>
  /\ UNCHANGED <<policyVars, clockVars, orchVars, ctx, cur, outerVars, runs,
                 ran, outcomes, base, helper, httpVars, muVars,
                 runVars, queryVars, connVars>>

CleanFrame ==
  UNCHANGED <<policyVars, clockVars, pc, ri, logs, outerVars, runs, steps,
              aborted, registered, outcomes, written, failedAt, extVars>>

\* cleanup() where the function calls tt.Fail() and returns.
runCleanupsCallFail ==
  /\ task = "cleanup"
  /\ Kind(cur) = "fail"
  /\ Fail
  /\ ran' = Append(ran, cur)
  /\ cur' = NoCleanup
  /\ task' = "pop"
  /\ UNCHANGED <<wg, cleanups, ctx>>
  /\ CleanFrame

\* cleanup() where the function calls tt.FailNow(): runtime.Goexit runs in the
\* goroutine's deferred function, which is abandoned where it stands; no other
\* deferred call is left, so the goroutine ends without reaching wg.Done().
runCleanupsCallFailNow ==
  /\ task = "cleanup"
  /\ Kind(cur) = "failnow"
  /\ failed' = TRUE
  /\ ran' = Append(ran, cur)
  /\ cur' = NoCleanup
  /\ task' = "exited"
  /\ UNCHANGED <<wg, cleanups, ctx>>
  /\ CleanFrame

NextClean ==
  \/ Next
  \/ BodyCleanupFailing
  \/ runCleanupsCallFail
  \/ runCleanupsCallFailNow

SpecClean == InitHelper /\ [][NextClean]_vars

\* Every goroutine that can take a step eventually takes one, and so does
\* RunWith.
FairClean == SpecClean /\ WF_vars(NextClean)

\* C20: for every Counter policy and every body and cleanups that each
\* finish, by returning or by calling Fail, Error, FailNow or Fatal on the
\* attempt context, RunWith eventually returns to its caller or aborts the
\* outer context: the join on an attempt's goroutine never blocks forever.
C20_Returns == <>(pc = "done")

\* C21: a cleanup that itself fails, by calling Fail, Error, FailNow or Fatal
\* on the attempt context, does not keep the cleanups still on the stack from
\* running: once the attempt's goroutine has ended, every cleanup registered
\* in the attempt has run exactly once, in LIFO order.
C21_RestStillRun ==
  (runs >= 1 /\ task \in {"wgdone", "none", "exited"}) => ran = Reverse(registered)

\* ---------------------------------------------------------------------------
\* RunWith with a body whose helper goroutine registers cleanups.

\* The helper calls tt.Cleanup(fn) during an attempt: while the attempt's
\* goroutine exists and RunWith waits for it.
HelperRegisters ==
  /\ HelperActs /\ HelperStep
  /\ pc = "wait" /\ task # "none"
  /\ Cleanup(HelperCleanup)
  /\ registered' = Append(registered, HelperCleanup)
  /\ UNCHANGED <<policyVars, clockVars, orchVars, logs, failed, ctx, task, cur,
                 outerVars, runs, steps, aborted, ran, outcomes, written,
                 failedAt, base, ckinds, httpVars, muVars,
                 runVars, queryVars, connVars>>

NextRegister ==
  \/ Next
  \/ BodyGoHelper
  \/ HelperRegisters
  \/ HelperReturn

SpecRegister == InitHelper /\ [][NextRegister]_vars

\* C22, the state part: when the attempt has been joined its stack is empty
\* and the cleanups that ran are those registered since the attempt began,
\* each once; no cleanup runs that was not registered in the attempt.
C22_OnceInv ==
  /\ \A j \in 1..Len(ran) : \E i \in 1..Len(registered) : ran[j] = registered[i]
  /\ pc = "check" =>
       /\ cleanups = <<>>
       /\ Len(ran) = Len(registered)
       /\ \A i \in 1..Len(registered) : \E j \in 1..Len(ran) : ran[j] = registered[i]

\* C22, the step part: reset finds nothing on the stack to drop, and no
\* cleanup is registered while runCleanups runs.
C22_OnceStep ==
  /\ (pc = "reset" /\ pc' = "go") => cleanups = <<>>
  /\ Len(registered') > Len(registered) => task \notin {"pop", "cleanup"}

\* C22: every cleanup registered through Cleanup during an attempt, by the
\* body or by a helper goroutine the body started, is executed exactly once by
\* that attempt's cleanup phase: none is dropped by the next reset, none is
\* executed during a later attempt, and runCleanups never runs concurrently
\* with a Cleanup registration.
C22_ExactlyOnce == []C22_OnceInv /\ [][C22_OnceStep]_vars

\* ---------------------------------------------------------------------------
\* RunWith with cleanups that register cleanups: the function given to Cleanup
\* calls tt.Cleanup(child) when runCleanups invokes it, then returns.

\* The body registers a cleanup that will register another one.
BodyCleanupRegistering ==
  /\ InBody /\ Stmt
  /\ Cleanup(NewCleanup)
  /\ registered' = Append(registered, NewCleanup)
  /\ ckinds' = (NewCleanup :> "reg") @@ ckinds
  /\ UNCHANGED <<logs, failed, task, aborted, written, failedAt>>
  /\ UNCHANGED <<policyVars, clockVars, orchVars, ctx, cur, outerVars, runs,
                 ran, outcomes, base, helper, httpVars, muVars,
                 runVars, queryVars, connVars>>

\* cleanup() where the function calls tt.Cleanup(child) and returns.  Cleanup
\* takes t.mu, which runCleanups released before the call.
runCleanupsCallRegister ==
  /\ task = "cleanup"
  /\ Kind(cur) = "reg"
  /\ mu = "free"
  /\ Cleanup(NewCleanup)
  /\ registered' = Append(registered, NewCleanup)
  /\ ran' = Append(ran, cur)
  /\ cur' = NoCleanup
  /\ task' = "pop"
  /\ UNCHANGED <<policyVars, clockVars, orchVars, logs, failed, ctx, outerVars,
                 runs, steps, aborted, outcomes, written, failedAt, extVars>>

\* The body registers cleanups of both sorts, may fail, and returns.
NextNested ==
  \/ RunWithNext
  \/ RunWithReset
  \/ RunWithGo
  \/ BodyError
  \/ BodyFailNow
  \/ BodyCleanup
  \/ BodyCleanupRegistering
  \/ BodyReturn
  \/ runCleanupsCancel
  \/ runCleanupsPop
  \/ runCleanupsCall
  \/ runCleanupsCallRegister
  \/ wgDone
  \/ RunWithWait
  \/ RunWithCheck
  \/ RunWithReplay
  \/ RunWithFailNow
  \/ RunWithReturn

SpecNested == InitHelper /\ [][NextNested]_vars

\* The cleanups registered so far in the attempt that have not been called.
NotRun == {i \in 1..Len(registered) : \A j \in 1..Len(ran) : ran[j] # registered[i]}

\* The one registered last among them.
LatestNotRun == CHOOSE i \in NotRun : \A j \in NotRun : j <= i

\* C23, the state part: between two cleanups none is in progress; the cleanup
\* in progress is off the stack, has not run before and runs with the mutex
\* free; when runCleanups has returned the stack is empty and every
\* registered cleanup has run.
C23_DrainInv ==
  /\ task = "pop" => cur = NoCleanup
  /\ task = "cleanup" =>
       /\ cur # NoCleanup /\ mu = "free"
       /\ \A j \in 1..Len(cleanups) : cleanups[j] # cur
       /\ \A j \in 1..Len(ran) : ran[j] # cur
  /\ task = "wgdone" => (cleanups = <<>> /\ NotRun = {})

\* C23, the step part: a cleanup is popped only between two cleanups, one at
\* a time, and the one popped is the one registered last among those that
\* have not run, so that a cleanup registered by the cleanup that just ran
\* comes before every earlier one.
C23_DrainStep ==
  /\ Len(cleanups') < Len(cleanups) =>
       /\ task = "pop" /\ task' = "cleanup"
       /\ Len(cleanups') = Len(cleanups) - 1
  /\ (task = "pop" /\ task' = "cleanup") =>
       /\ NotRun # {}
       /\ cur' = registered[LatestNotRun]
  /\ Len(ran') > Len(ran) => (task = "cleanup" /\ ran' = Append(ran, cur))

\* C23: runCleanups drains the stack one cleanup at a time.  Each cleanup runs
\* to completion, outside the lock, before the next is popped; a cleanup
\* registered by a running cleanup is executed in the same runCleanups call,
\* before any earlier-registered cleanup that has not run yet; and when
\* runCleanups returns the cleanup stack is empty.
C23_Drain == []C23_DrainInv /\ [][C23_DrainStep]_vars

C23_Witness ==
  /\ task = "wgdone"
  /\ Len(registered) = 3 /\ Len(ran) = 3
  /\ Kind(registered[2]) = "reg"
  /\ ran = <<registered[2], registered[3], registered[1]>>

\* ---------------------------------------------------------------------------
\* Run called several times by one test binary: every call asks
\* DefaultPolicy() for its policy.  The clock ticks once per sleep of the
\* default policy (10 ms) and the default budget of 5 s is cut down to the
\* largest timeout of the model.

MaxRuns == 2

DefaultSleep == 1

DefaultTimeout == MaxTimeout

StaleStop == stop

\* The stop field of the Timer that DefaultPolicy() returns: a new struct,
\* whose stop is the zero time.
FreshStop == ZeroTime

\* The first call of Run: DefaultPolicy() and RunWith's first statements.
InitRun ==
  /\ NewTimer(DefaultTimeout, DefaultSleep)
  /\ now = Epoch /\ elapsed = 0 /\ calls = <<>>
  /\ pc = "next" /\ wg = 0 /\ ri = 0
  /\ logs = <<>> /\ failed = FALSE /\ cleanups = <<>> /\ ctx = "nil"
  /\ task = "none" /\ cur = NoCleanup
  /\ outerLogs = <<>> /\ outerFailNow = 0
  /\ runs = 0 /\ steps = 0 /\ aborted = FALSE
  /\ registered = <<>> /\ ran = <<>> /\ outcomes = <<>>
  /\ written = <<>> /\ failedAt = 0
  /\ ExtIdle

\* Whether the policy of the call of Run that just ended refused a retry.
Refused == calls # <<>> /\ ~calls[Len(calls)].ret

\* A later call of Run, with an outer context of its own, after the call
\* before it returned or aborted its outer context: RunWith(t,
\* DefaultPolicy(), fn) with tt := &SubT{}.  The clock goes on.
Run ==
  /\ pc = "done"
  /\ session.n < MaxRuns
  /\ session' = [n |-> session.n + 1, spent |-> session.spent \/ Refused]
  /\ kind' = "timer" /\ attempts' = 0 /\ count' = 0
  /\ timeout' = DefaultTimeout /\ sleep' = DefaultSleep
  /\ stop' = FreshStop
  /\ elapsed' = 0 /\ calls' = <<>>
  /\ pc' = "next" /\ wg' = 0 /\ ri' = 0
  /\ logs' = <<>> /\ failed' = FALSE /\ cleanups' = <<>> /\ ctx' = "nil"
  /\ task' = "none" /\ cur' = NoCleanup
  /\ outerLogs' = <<>> /\ outerFailNow' = 0
  /\ runs' = 0 /\ steps' = 0 /\ aborted' = FALSE
  /\ registered' = <<>> /\ ran' = <<>> /\ outcomes' = <<>>
  /\ written' = <<>> /\ failedAt' = 0
  /\ UNCHANGED <<now, base, helper, ckinds, httpVars, muVars, queryVars, connVars>>

NextRun ==
  \/ Next
  \/ Run

SpecRun == InitRun /\ [][NextRun]_vars

\* C24: each call to Run obtains a new default policy in its initial state.
\* Whatever the calls before it did, its policy has taken no decision before
\* its first Next(), that first call grants the body an attempt without
\* sleeping and opens a budget of the full default timeout from that moment,
\* every Next() within the budget grants a retry, and Run does not end before
\* the body was invoked.
C24_OwnBudget ==
  /\ kind = "timer" /\ timeout = DefaultTimeout /\ sleep = DefaultSleep
  /\ calls = <<>> => stop = ZeroTime
  /\ calls # <<>> =>
       /\ calls[1].ret /\ ~calls[1].slept
       /\ stop = calls[1].at + DefaultTimeout
       /\ \A i \in 1..Len(calls) : calls[i].at <= stop => calls[i].ret
  /\ pc \in {"replay", "done"} => runs >= 1

C24_Witness ==
  /\ session.n = MaxRuns /\ session.spent
  /\ task = "body" /\ runs = 1
  /\ now > Epoch + DefaultTimeout
  /\ stop = now + DefaultTimeout

\* C25, the step part: the failed flag goes from true to false only in
\* tt.reset, which RunWith calls only before it starts an attempt's
\* goroutine, and RunWith judges the attempt by the flag as the attempt left
\* it.
C25_MonotonicStep ==
  /\ (failed /\ ~failed') => (pc = "reset" /\ pc' = "go")
  /\ (pc = "reset" /\ pc' = "go") => (~failed' /\ task = "none" /\ wg = 0)
  /\ (pc = "check" /\ pc' # "check") =>
       /\ failed' = failed
       /\ outcomes' = Append(outcomes, failed)

\* C25, the state part: once a statement of the body has set the flag it is
\* true in the rest of the body, in the cleanups and when RunWith reads it.
C25_MonotonicInv ==
  (failedAt > 0 /\ pc \in {"wait", "check"}) => failed

\* C25: within one attempt the failed flag is monotonic.  Once Fail, Error,
\* Errorf, FailNow, Fatal or Fatalf has set it, it stays true through the rest
\* of the body, through the cleanups and until RunWith has read it; only reset
\* sets it back to false, and reset is called only at the start of an attempt.
C25_Monotonic == []C25_MonotonicInv /\ [][C25_MonotonicStep]_vars

C25_Witness ==
  /\ pc = "check" /\ failed
  /\ failedAt = 1 /\ steps = MaxOps
  /\ Len(ran) >= 1 /\ runs = 2

\* ---------------------------------------------------------------------------
\* requestMatches on its own: one expectation registered with a query string,
\* one request to its method and path, and range visiting the keys of the
\* expectation's query in any of the orders the runtime may take.

\* What On("GET", "/a?" + raw) registers.
QueryExpectation(raw) ==
  [id |-> 1, method |-> "GET", path |-> "/a", qry |-> <<ParseQuery(raw)>>,
   times |-> -1, called |-> -1]

\* A call of requestMatches made by the handler's loop, before it returns.
MatchCall(r, e, o) ==
  [at |-> "call", req |-> [method |-> "GET", path |-> "/a", raw |-> r],
   exp |-> QueryExpectation(e), order |-> o, result |-> FALSE]

InitQuery ==
  /\ NoRetry
  /\ HttpIdle
  /\ ConnIdle
  /\ \E r \in RawQueries, e \in RawQueries \ {<<>>} :
       \E o \in Orders(ParseQuery(e)) : qm = MatchCall(r, e, o)

\* requestMatches(req, exp) runs and returns.
MatchReturn ==
  /\ qm.at = "call"
  /\ qm' = [qm EXCEPT !.at = "returned",
                      !.result = requestMatches(qm.req, qm.exp, qm.order)]
  /\ UNCHANGED <<policyVars, clockVars, orchVars, subtVars, taskVars,
                 outerVars, obsVars, base, helper, ckinds, httpVars, muVars,
                 runVars, connVars>>

NextQuery == MatchReturn

SpecQuery == InitQuery /\ [][NextQuery]_vars

\* Every key of the expectation's query is in the request's query with all
\* the values the expectation gives it.
AllKeysPresent(expq, qry) ==
  \A k \in DOMAIN expq : Has(qry, k) /\ elementsMatch(expq[k], qry[k])

\* C26: a request matches an expectation registered with a query string only
\* if every key of the expectation's query is in the request with all the
\* expectation's values for it, and the answer of requestMatches is the same
\* whatever the order in which range visits the expectation's keys.
C26_QueryMatch ==
  qm.at = "returned" =>
    /\ qm.result => AllKeysPresent(qm.exp.qry[1], ParseQuery(qm.req.raw))
    /\ \A o \in Orders(qm.exp.qry[1]) :
         requestMatches(qm.req, qm.exp, o) = qm.result

\* ---------------------------------------------------------------------------
\* The mock server with an expectation registered with a query string of two
\* keys, and requests that carry a query.

QueryOnArgs ==
  {[method |-> "GET",
    path |-> [path |-> "/a", query |-> <<<<<<"a", "1">>, <<"b", "2">>>>>>]]}

QueryRequests ==
  {[method |-> "GET", path |-> "/a", raw |-> <<<<"a", "1">>, <<"b", "2">>>>],
   [method |-> "GET", path |-> "/a", raw |-> <<<<"a", "1">>, <<"b", "1">>>>]}

\* s.On("GET", "/a?a=1&b=2")
ServerOnQuery ==
  /\ hpc = "setup"
  /\ Len(registry) < MaxExpect
  /\ \E a \in QueryOnArgs :
       /\ expect' = Append(expect, On(a.method, a.path))
       /\ registry' = Append(registry, On(a.method, a.path))
  /\ UNCHANGED <<served, reports, hpc>>
  /\ HttpFrame

\* A client's request with a query reaches the server and the handler runs to
\* its end.
ServerRequestQuery ==
  /\ hpc \in {"setup", "serving"}
  /\ Len(served) + Len(reports) < MaxRequests
  /\ \E req \in QueryRequests, ords \in OrderChoices : handler(req, ords)
  /\ hpc' = "serving"
  /\ UNCHANGED registry
  /\ HttpFrame

NextHttpQuery ==
  \/ ServerOn
  \/ ServerOnQuery
  \/ ServerRequest
  \/ ServerRequestQuery

SpecHttpQuery == InitHttp /\ [][NextHttpQuery]_vars

\* The handler ran: the requests served or reported grew by one.
Handled ==
  /\ hpc' = "serving"
  /\ Len(served') + Len(reports') = Len(served) + Len(reports) + 1

\* The request's method, path and query match the expectation: the method and
\* the path as requestMatches compares them, and every key of the
\* expectation's query present with all its values.
FullMatch(req, exp) ==
  /\ exp.method = req.method \/ exp.method = Anything
  /\ exp.path = Anything \/ Glob(exp.path, req.path)
  /\ exp.qry # <<>> => AllKeysPresent(exp.qry[1], ParseQuery(req.raw))

\* The expectations of the list that match req, by their place in the list.
Candidates(req) == {i \in 1..Len(expect) : FullMatch(req, expect[i])}

\* The list holds the expectations in the order they were registered.
C27_OrderInv ==
  \A i, j \in 1..Len(expect) : i < j => expect[i].id < expect[j].id

\* One run of the handler: either the request is served by the earliest
\* expectation that matches it, whose count alone goes down by one (the
\* expectation leaving the list when the count reaches zero), or nothing
\* matches, the request is reported and the list stays as it is.
C27_ServeStep ==
  Handled =>
    \/ /\ Len(served') = Len(served) + 1
       /\ reports' = reports
       /\ LET s == served'[Len(served')]
          IN  \E i \in Candidates(s.req) :
                /\ \A j \in Candidates(s.req) : i <= j
                /\ expect[i].id = s.id
                /\ \/ expect' = [expect EXCEPT ![i].called = @ - 1]
                   \/ expect[i].called = 1 /\ expect' = Remove(expect, i)
    \/ /\ Len(reports') = Len(reports) + 1
       /\ served' = served
       /\ reports'[Len(reports')].kind = "unexpected"
       /\ Candidates(reports'[Len(reports')].req) = {}
       /\ expect' = expect

\* C27: the server serves each request with the first expectation, in the
\* order of registration, whose method, path and query match, and decrements
\* the remaining count of that expectation only; a request that matches no
\* expectation is reported through t.Errorf and leaves the list and every
\* remaining count as they were.
C27_FirstMatch == []C27_OrderInv /\ [][C27_ServeStep]_vars

\* ---------------------------------------------------------------------------
\* The mock server under concurrent requests: httptest.NewServer runs
\* s.handler on one goroutine per connection, and the handler takes no lock.
\* Each handler goes through its statements one at a time: the loop finds the
\* first expectation that matches, the response is written, exp.called is
\* read, exp.called is written, exp.called is compared with zero, and
\* s.expect is reassigned.  s.expect holds pointers: the called field they
\* point to is objs once a handler has written it.

MaxConns == 2

Conns == 1..MaxConns

\* A connection with no request under way.
IdleConn == [at |-> "idle"]

ConcRequests == {[method |-> "GET", path |-> "/a", raw |-> <<>>]}

ConcOnArgs == {[method |-> "GET", path |-> [path |-> "/a", query |-> <<>>]]}

InitConc ==
  /\ NoRetry
  /\ NewServer
  /\ QueryIdle
  /\ conns = [c \in Conns |-> IdleConn]
  /\ objs = <<>>

\* exp.called of the expectation registered as number id.
Called(id) == IF id \in DOMAIN objs THEN objs[id] ELSE registry[id].called

\* The requests accepted so far.
Accepted ==
  Len(served) + Len(reports) + Cardinality({c \in Conns : conns[c].at = "serve"})

ConcFrame ==
  UNCHANGED <<policyVars, clockVars, orchVars, subtVars, taskVars, outerVars,
              obsVars, base, helper, ckinds, muVars, runVars, queryVars>>

\* s.On("GET", "/a").Times(n), n >= 1, before the first request.
ConcOnTimes ==
  /\ hpc = "setup"
  /\ Len(registry) < MaxExpect
  /\ \E a \in ConcOnArgs, n \in 1..MaxTimes :
       /\ expect' = Append(expect, Times(On(a.method, a.path), n))
       /\ registry' = Append(registry, Times(On(a.method, a.path), n))
  /\ UNCHANGED <<served, reports, hpc, conns, objs>>
  /\ ConcFrame

\* for i, exp := range s.expect { if !requestMatches(req, exp) { continue }:
\* the loop stops at the first expectation that matches.
ConnRangeMatch(c) ==
  /\ hpc \in {"setup", "serving"}
  /\ conns[c].at = "idle"
  /\ Accepted < MaxRequests
  /\ \E req \in ConcRequests, ords \in OrderChoices :
       /\ Matching(req, ords) # {}
       /\ conns' = [conns EXCEPT ![c] =
                      [at |-> "serve", req |-> req, i |-> FirstMatch(req, ords),
                       id |-> expect[FirstMatch(req, ords)].id, r |-> 0]]
  /\ hpc' = "serving"
  /\ UNCHANGED <<expect, registry, served, reports, objs>>
  /\ ConcFrame

\* The loop ends without a match: s.t.Errorf("Unexpected call to ...").
ConnRangeNone(c) ==
  /\ hpc \in {"setup", "serving"}
  /\ conns[c].at = "idle"
  /\ Accepted < MaxRequests
  /\ \E req \in ConcRequests, ords \in OrderChoices :
       /\ Matching(req, ords) = {}
       /\ reports' = Append(reports, Report("unexpected", NoExpectation, req))
  /\ hpc' = "serving"
  /\ UNCHANGED <<expect, registry, served, conns, objs>>
  /\ ConcFrame

\* w.WriteHeader(exp.status), w.Write(exp.body)
ConnServe(c) ==
  /\ conns[c].at = "serve"
  /\ served' = Append(served, [req |-> conns[c].req, id |-> conns[c].id])
  /\ conns' = [conns EXCEPT ![c].at = "load"]
  /\ UNCHANGED <<expect, registry, reports, hpc, objs>>
  /\ ConcFrame

\* exp.called--, the read
ConnLoad(c) ==
  /\ conns[c].at = "load"
  /\ conns' = [conns EXCEPT ![c].at = "store", ![c].r = Called(conns[c].id)]
  /\ UNCHANGED <<expect, registry, served, reports, hpc, objs>>
  /\ ConcFrame

\* exp.called--, the write
ConnStore(c) ==
  /\ conns[c].at = "store"
  /\ objs' = (conns[c].id :> (conns[c].r - 1)) @@ objs
  /\ conns' = [conns EXCEPT ![c].at = "check"]
  /\ UNCHANGED <<expect, registry, served, reports, hpc>>
  /\ ConcFrame

\* if exp.called == 0
ConnCheck(c) ==
  /\ conns[c].at = "check"
  /\ conns' = [conns EXCEPT ![c] =
                 IF Called(conns[c].id) = 0
                 THEN [conns[c] EXCEPT !.at = "remove"]
                 ELSE IdleConn]
  /\ UNCHANGED <<expect, registry, served, reports, hpc, objs>>
  /\ ConcFrame

\* s.expect = append(s.expect[:i], s.expect[i+1:]...) with the index the loop
\* had; s.expect[i+1:] panics when the list has become shorter than that, and
\* net/http recovers the panic and drops the connection.
ConnRemove(c) ==
  /\ conns[c].at = "remove"
  /\ IF conns[c].i <= Len(expect)
     THEN /\ expect' = Remove(expect, conns[c].i)
          /\ conns' = [conns EXCEPT ![c] = IdleConn]
     ELSE /\ expect' = expect
          /\ conns' = [conns EXCEPT ![c] = [at |-> "panicked"]]
  /\ UNCHANGED <<registry, served, reports, hpc, objs>>
  /\ ConcFrame

NextConc ==
  \/ ConcOnTimes
  \/ \E c \in Conns :
       \/ ConnRangeMatch(c)
       \/ ConnRangeNone(c)
       \/ ConnServe(c)
       \/ ConnLoad(c)
       \/ ConnStore(c)
       \/ ConnCheck(c)
       \/ ConnRemove(c)

SpecConc == InitConc /\ [][NextConc]_vars

\* No handler is running.
Quiescent == \A c \in Conns : conns[c].at = "idle"

\* A Times(n) expectation has served at most n requests, and once the
\* handlers have returned its remaining count is n less the requests it served.
C28_CountInv ==
  \A id \in 1..Len(registry) :
    /\ ServedBy(id) <= registry[id].times
    /\ Quiescent => Called(id) = registry[id].times - ServedBy(id)

\* The list changes only by losing an expectation whose count is zero.
C28_RemoveStep ==
  (hpc = "serving" /\ expect' # expect) =>
    \E i \in 1..Len(expect) :
      /\ expect' = Remove(expect, i)
      /\ Called(expect[i].id) = 0

\* C28: with requests handled concurrently, one handler per connection, a
\* Times(n) expectation is served at most n times, each served request
\* decrements the count of one expectation once, and no interleaving of
\* handlers removes an expectation other than the one that reached zero.
C28_Concurrent == []C28_CountInv /\ [][C28_RemoveStep]_vars

====
